---- MODULE Spec2Model ----
(***************************************************************************)
(* A model of mdlinkcheck.py, the checker of project-internal Markdown     *)
(* links.  Python strings are sequences of one-character strings, so that  *)
(* the regular expressions, str.split, str.startswith and the pathlib      *)
(* conversions are computed character by character.  A pathlib.Path is the *)
(* sequence of its components.  All paths are relative to the working      *)
(* directory of the run, which is the root of the file system: the tree of *)
(* the model is all there is, and ".." at its top stays at its top.        *)
(***************************************************************************)
EXTENDS Integers, Sequences, FiniteSets, TLC

VARIABLES
    args,            \* parsed command line: pathes, raspiBackupDoc, show_external_links, verbose
    fs,              \* the tree: file path |-> lines of the file (without terminators)
    pc,              \* position of main: start, roots, walk, files, lines, done, aborted
    srcdir,          \* index into args.pathes of the next root of main's loop
    stack,           \* the paths list of Path.walk (last element is popped first)
    root,            \* directory yielded by Path.walk
    files,           \* file names of root not yet visited by walk_dir's inner loop
    file,            \* document being checked
    lines,           \* f.readlines() of the document
    line_number,     \* number of the last line taken by enumerate(lines, start=1)
    external_links,  \* list collected by check_markdown_file
    out,             \* everything printed on standard output, in order
    checked          \* history: one record per line taken by check_markdown_file

vars == <<args, fs, pc, srcdir, stack, root, files, file, lines, line_number,
          external_links, out, checked>>

-----------------------------------------------------------------------------
(* Bounds of the model *)

MaxRoots == 2          \* greatest number of positional arguments
MaxTargetSegs == 3     \* greatest number of segments a generated link target is made of

-----------------------------------------------------------------------------
(* Characters and strings *)

NL == "\n"
QUOTE == "\""

\* code points 32..126 in order; the grave accent (96) is spelled GRAVE
Printable ==
    <<" ","!","\"","#","$","%","&","'","(",")","*","+",",","-",".","/",
      "0","1","2","3","4","5","6","7","8","9",":",";","<","=",">","?","@",
      "A","B","C","D","E","F","G","H","I","J","K","L","M","N","O","P","Q",
      "R","S","T","U","V","W","X","Y","Z","[","\\","]","^","_","GRAVE",
      "a","b","c","d","e","f","g","h","i","j","k","l","m","n","o","p","q",
      "r","s","t","u","v","w","x","y","z","{","|","}","~">>

\* code point of a character (printable ASCII, tab and newline)
Ord(c) ==
    IF c = NL THEN 10
    ELSE IF c = "\t" THEN 9
    ELSE 31 + (CHOOSE i \in 1..Len(Printable) : Printable[i] = c)

\* str.lower on one character, as re.IGNORECASE folds it
Lower(c) ==
    IF Ord(c) >= 65 /\ Ord(c) <= 90 THEN Printable[Ord(c) + 1] ELSE c

Min(S) == CHOOSE x \in S : \A y \in S : x <= y

\* s[i:i+len(p)] == p
LiteralAt(s, i, p) ==
    /\ i >= 1
    /\ i + Len(p) - 1 <= Len(s)
    /\ \A x \in 1..Len(p) : s[i + x - 1] = p[x]

startswith(s, p) == LiteralAt(s, 1, p)

RECURSIVE Concat(_)
Concat(ss) == IF ss = <<>> THEN <<>> ELSE Head(ss) \o Concat(Tail(ss))

\* the natural order of Python strings
RECURSIVE StrLess(_, _)
StrLess(a, b) ==
    IF b = <<>> THEN FALSE
    ELSE IF a = <<>> THEN TRUE
    ELSE IF Head(a) # Head(b) THEN Ord(Head(a)) < Ord(Head(b))
    ELSE StrLess(Tail(a), Tail(b))

Whitespace == {" ", "\t", NL, "\r"}

\* str.strip()
RECURSIVE lstrip(_)
lstrip(s) == IF s # <<>> /\ Head(s) \in Whitespace THEN lstrip(Tail(s)) ELSE s

RECURSIVE rstrip(_)
rstrip(s) ==
    IF s # <<>> /\ s[Len(s)] \in Whitespace THEN rstrip(SubSeq(s, 1, Len(s) - 1)) ELSE s

strip(s) == rstrip(lstrip(s))

-----------------------------------------------------------------------------
(* pathlib *)

\* Path(s): the components of s; empty components and "." are dropped, ".." is kept
RECURSIVE SplitSlash(_, _)
SplitSlash(s, cur) ==
    IF s = <<>> THEN <<cur>>
    ELSE IF Head(s) = "/" THEN <<cur>> \o SplitSlash(Tail(s), <<>>)
    ELSE SplitSlash(Tail(s), Append(cur, Head(s)))

Path(s) == SelectSeq(SplitSlash(s, <<>>), LAMBDA c : c # <<>> /\ c # <<".">>)

\* root / target, for a relative target string
PathJoin(p, s) == p \o Path(s)

\* Path.as_posix()
RECURSIVE JoinSlash(_)
JoinSlash(p) ==
    IF Len(p) = 1 THEN p[1] ELSE p[1] \o <<"/">> \o JoinSlash(Tail(p))

as_posix(p) == IF p = <<>> THEN <<".">> ELSE JoinSlash(p)

\* Path.suffix: from the last dot of the name, unless the dot is first or last
suffix(p) ==
    IF p = <<>> THEN <<>>
    ELSE LET name == p[Len(p)]
             dots == {i \in 1..Len(name) : name[i] = "."}
         IN  IF dots = {} THEN <<>>
             ELSE LET i == CHOOSE d \in dots : \A e \in dots : e <= d
                  IN  IF 1 < i /\ i < Len(name) THEN SubSeq(name, i, Len(name)) ELSE <<>>

-----------------------------------------------------------------------------
(* The file system *)

Files == DOMAIN fs

\* the directories of the tree: every proper prefix of a file path
Dirs == UNION {{SubSeq(f, 1, n) : n \in 0..(Len(f) - 1)} : f \in Files}

\* the entry a path names, following ".." through the tree; NoEntry when a
\* component is missing or is not a directory
NoEntry == <<<<"\t">>>>

RECURSIVE Walked(_, _)
Walked(cur, p) ==
    IF p = <<>> THEN cur
    ELSE IF cur \notin Dirs THEN NoEntry
    ELSE IF Head(p) = <<".", ".">>
         THEN Walked(IF cur = <<>> THEN cur ELSE SubSeq(cur, 1, Len(cur) - 1), Tail(p))
         ELSE Walked(Append(cur, Head(p)), Tail(p))

Resolve(p) ==
    LET e == Walked(<<>>, p) IN IF e \in Files \cup Dirs THEN e ELSE NoEntry

\* Path.exists()
exists(p) == Resolve(p) # NoEntry

is_dir(p) == Resolve(p) \in Dirs

\* f.readlines(): every line ends with a newline
readlines(p) == [i \in 1..Len(fs[Resolve(p)]) |-> Append(fs[Resolve(p)][i], NL)]

\* Path.read_text()
read_text(p) == Concat(readlines(p))

\* os.scandir gives the entries of a directory in any order
Perms(S) ==
    {s \in [1..Cardinality(S) -> S] : \A i, j \in 1..Cardinality(S) : s[i] = s[j] => i = j}

FileNames(d) == {f[Len(f)] : f \in {g \in Files : Len(g) = Len(d) + 1 /\ SubSeq(g, 1, Len(d)) = d}}

DirNames(d) == {f[Len(f)] : f \in {g \in Dirs : Len(g) = Len(d) + 1 /\ SubSeq(g, 1, Len(d)) = d}}

Reverse(s) == [i \in 1..Len(s) |-> s[Len(s) + 1 - i]]

-----------------------------------------------------------------------------
(* What is printed.  Every printed line is a record of the same shape:     *)
(* kind names the message, file and line are the "<path>:<line>:" prefix,  *)
(* text is the anchor or the URL, path the target file and tline the line  *)
(* of the target file the message names.                                    *)

NoText == <<>>

Printed(kind, f, n, text, path, tline) ==
    [kind |-> kind, file |-> f, line |-> n, text |-> text, path |-> path, tline |-> tline]

Banner == Printed("*** Check project-internal links ***", NoText, 0, NoText, NoText, 0)
SummaryBanner == Printed("*** Info: Not checked external link(s) ***", NoText, 0, NoText, NoText, 0)
Blank == Printed("", NoText, 0, NoText, NoText, 0)

DiagnosticKinds == {"Target file not found", "Anchor not found", "is not quoted"}

-----------------------------------------------------------------------------
(* check_anchor_in_target_file *)

TagOpen == <<"<","a"," ","n","a","m","e","=">>

\* The anchor is pasted into the patterns unescaped, so it is itself a
\* pattern.  The fragments of the model are made of characters that stand
\* for themselves, of "." (any character but a newline) and of "(", which
\* opens a group that nothing closes: a link target never holds a ")".
compiles(anchor) == \A x \in 1..Len(anchor) : anchor[x] # "("

PatternChar(p, c, ignorecase) ==
    IF p = "." THEN c # NL
    ELSE IF ignorecase THEN Lower(p) = Lower(c)
    ELSE p = c

\* the anchor, as a pattern, matches content[i .. i+len(anchor)-1]
AnchorAt(content, i, anchor, ignorecase) ==
    /\ i >= 1
    /\ i + Len(anchor) - 1 <= Len(content)
    /\ \A x \in 1..Len(anchor) : PatternChar(anchor[x], content[i + x - 1], ignorecase)

\* '<a name="{anchor}">' matches at i
QuotedAt(content, i, anchor) ==
    /\ LiteralAt(content, i, Append(TagOpen, QUOTE))
    /\ AnchorAt(content, i + Len(TagOpen) + 1, anchor, FALSE)
    /\ LiteralAt(content, i + Len(TagOpen) + 1 + Len(anchor), <<QUOTE, ">">>)

\* '<a name={anchor}[^"]' matches at i
UnquotedAt(content, i, anchor) ==
    /\ LiteralAt(content, i, TagOpen)
    /\ AnchorAt(content, i + Len(TagOpen), anchor, FALSE)
    /\ i + Len(TagOpen) + Len(anchor) <= Len(content)
    /\ content[i + Len(TagOpen) + Len(anchor)] # QUOTE

\* '^##* {anchor}' matches at i, with re.IGNORECASE | re.MULTILINE
TitleAt(content, i, anchor) ==
    /\ i = 1 \/ content[i - 1] = NL
    /\ \E k \in 1..(Len(content) - i) :
          /\ \A x \in i..(i + k - 1) : content[x] = "#"
          /\ content[i + k] = " "
          /\ AnchorAt(content, i + k + 1, anchor, TRUE)

m_anchor_quoted(content, anchor) == {i \in 1..Len(content) : QuotedAt(content, i, anchor)}
m_anchor_unquoted(content, anchor) == {i \in 1..Len(content) : UnquotedAt(content, i, anchor)}
m_title(content, anchor) == {i \in 1..Len(content) : TitleAt(content, i, anchor)}

\* content[:start].count("\n") + 1
LineOf(content, start) == Cardinality({x \in 1..(start - 1) : content[x] = NL}) + 1

\* the result: what the call prints, and whether it raised (read_text of a
\* directory, or re.error for a pattern that does not compile)
check_anchor_in_target_file(target, anchor, is_local_anchor, file_, line_number_) ==
    IF is_dir(target) \/ ~compiles(anchor)
    THEN [raised |-> TRUE, prints |-> <<>>]
    ELSE
    LET content == read_text(target)
        unq == m_anchor_unquoted(content, anchor)
        found == m_anchor_quoted(content, anchor) # {} \/ m_title(content, anchor) # {}
        where == IF is_local_anchor THEN NoText ELSE as_posix(target)
    IN  IF unq # {}
        THEN [raised |-> FALSE,
              prints |-> <<Printed("is not quoted", as_posix(file_), line_number_,
                                   anchor, where, LineOf(content, Min(unq)))>>]
        ELSE IF found
        THEN [raised |-> FALSE, prints |-> <<>>]
        ELSE [raised |-> FALSE,
              prints |-> <<Printed("Anchor not found", as_posix(file_), line_number_,
                                   anchor, where, 0)>>]

-----------------------------------------------------------------------------
(* check_markdown_file *)

\* r"\[.*?\]\((.*?)\)" matches s[i..k], the label ending at j
LinkAt(s, i, j, k) ==
    /\ i < j /\ j + 1 < k /\ k <= Len(s)
    /\ s[i] = "[" /\ s[j] = "]" /\ s[j + 1] = "(" /\ s[k] = ")"
    /\ \A x \in (i + 1)..(k - 1) : s[x] # NL

\* link_search with a greedy target, "(.*)" for "(.*?)": it ends at the last ")"
link_search_greedy(s) ==
    LET opens == {i \in 1..Len(s) : s[i] = "["}
        closes == {j \in 1..(Len(s) - 1) : s[j] = "]" /\ s[j + 1] = "("}
        ends == {k \in 1..Len(s) : s[k] = ")"}
        starts == {i \in opens : \E j \in closes : \E k \in ends : LinkAt(s, i, j, k)}
    IN  IF starts = {} THEN [matched |-> FALSE, target |-> <<>>]
        ELSE LET i == Min(starts)
                 j == Min({y \in closes : \E k \in ends : LinkAt(s, i, y, k)})
                 k == CHOOSE z \in ends : LinkAt(s, i, j, z)
                                          /\ \A w \in ends : LinkAt(s, i, j, w) => w <= z
             IN  [matched |-> TRUE, target |-> SubSeq(s, j + 2, k - 1)]

\* re.search: the leftmost start, then the shortest label, then the shortest target
link_search(s) ==
    LET opens == {i \in 1..Len(s) : s[i] = "["}
        closes == {j \in 1..(Len(s) - 1) : s[j] = "]" /\ s[j + 1] = "("}
        ends == {k \in 1..Len(s) : s[k] = ")"}
        starts == {i \in opens : \E j \in closes : \E k \in ends : LinkAt(s, i, j, k)}
    IN  IF starts = {} THEN [matched |-> FALSE, target |-> <<>>]
        ELSE LET i == Min(starts)
                 j == Min({y \in closes : \E k \in ends : LinkAt(s, i, y, k)})
                 k == Min({z \in ends : LinkAt(s, i, j, z)})
             IN  [matched |-> TRUE, target |-> SubSeq(s, j + 2, k - 1)]

\* re.match(r"https*://", target)
is_external(target) ==
    \E n \in 0..Len(target) :
        /\ startswith(target, <<"h","t","t","p">>)
        /\ \A x \in 5..(4 + n) : x <= Len(target) /\ target[x] = "s"
        /\ LiteralAt(target, 5 + n, <<":","/","/">>)

\* target, anchor = target.split("#"), and anchor = "" on ValueError: the
\* unpacking succeeds only when there are exactly two pieces
split_target(target) ==
    LET hashes == {i \in 1..Len(target) : target[i] = "#"}
    IN  IF Cardinality(hashes) = 1
        THEN LET i == CHOOSE h \in hashes : TRUE
             IN  [target |-> SubSeq(target, 1, i - 1),
                  anchor |-> SubSeq(target, i + 1, Len(target))]
        ELSE [target |-> target, anchor |-> <<>>]

\* remap that keeps the prefix it should replace, target for target[3:]
remap_keeping_prefix(target, raspibackupdoc) ==
    IF raspibackupdoc /\ startswith(target, <<".",".","/">>)
    THEN <<".",".","/",".",".","/","e","n","/","s","r","c","/">> \o target
    ELSE IF raspibackupdoc /\ startswith(target, <<"d","e","/">>)
    THEN <<".",".","/",".",".","/","d","e","/","s","r","c","/">> \o target
    ELSE target

\* the special handling for raspiBackupDoc
remap(target, raspibackupdoc) ==
    IF raspibackupdoc /\ startswith(target, <<".",".","/">>)
    THEN <<".",".","/",".",".","/","e","n","/","s","r","c","/">> \o SubSeq(target, 4, Len(target))
    ELSE IF raspibackupdoc /\ startswith(target, <<"d","e","/">>)
    THEN <<".",".","/",".",".","/","d","e","/","s","r","c","/">> \o SubSeq(target, 4, Len(target))
    ELSE target

\* check_target without the "continue" that follows the message: the anchor
\* check is called for the missing file, and read_text raises
check_target_without_continue(locals, is_local_anchor) ==
    LET call == check_anchor_in_target_file(locals.target_path, locals.anchor,
                                            is_local_anchor, locals.file, locals.line_number)
        missing == [locals EXCEPT !.prints =
                       <<Printed("Target file not found", as_posix(locals.file),
                                 locals.line_number, NoText, as_posix(locals.target_path), 0)>>]
    IN  IF ~exists(locals.target_path)
        THEN IF locals.anchor # <<>>
             THEN [missing EXCEPT !.anchor_checked = TRUE, !.raised = TRUE]
             ELSE missing
        ELSE IF locals.anchor # <<>>
        THEN [locals EXCEPT !.anchor_checked = TRUE,
                            !.raised = call.raised,
                            !.prints = call.prints]
        ELSE locals

\* the end of the loop body, once target_path is known: the existence check
\* and, for a link with a fragment, the anchor check
check_target(locals, is_local_anchor) ==
    LET call == check_anchor_in_target_file(locals.target_path, locals.anchor,
                                            is_local_anchor, locals.file, locals.line_number)
    IN  IF ~exists(locals.target_path)
        THEN [locals EXCEPT !.prints =
                 <<Printed("Target file not found", as_posix(locals.file),
                           locals.line_number, NoText, as_posix(locals.target_path), 0)>>]
        ELSE IF locals.anchor # <<>>
        THEN [locals EXCEPT !.anchor_checked = TRUE,
                            !.raised = call.raised,
                            !.prints = call.prints]
        ELSE locals

\* what the loop body does with one line: what it prints, what it appends to
\* external_links, whether an exception left it, and the values of its locals
check_line(root_, file_, n, rawline, raspibackupdoc) ==
    LET line == strip(rawline)
        m == link_search(line)
        sp == split_target(m.target)
        is_local_anchor == sp.target = <<>>
        target == IF is_local_anchor THEN sp.target ELSE remap(sp.target, raspibackupdoc)
        target_path == IF is_local_anchor THEN file_ ELSE PathJoin(root_, target)
        locals == [file |-> file_, root |-> root_, line_number |-> n, line |-> line,
                   matched |-> m.matched, raw |-> m.target, external |-> FALSE,
                   path_part |-> <<>>, target |-> <<>>, anchor |-> <<>>,
                   target_path |-> <<>>, anchor_checked |-> FALSE, raised |-> FALSE,
                   prints |-> <<>>, links |-> <<>>]
    IN  IF ~m.matched THEN locals
        ELSE IF is_external(m.target)
        THEN [locals EXCEPT !.external = TRUE,
                            !.links = <<<<as_posix(file_), n, m.target>>>>]
        ELSE check_target([locals EXCEPT !.path_part = sp.target, !.target = target,
                                         !.anchor = sp.anchor, !.target_path = target_path],
                          is_local_anchor)

\* for line_number, line in enumerate(lines, start=1): the body for the next line
check_markdown_file(next_pc) ==
    LET n == line_number + 1
        r == check_line(root, file, n, lines[n], args.raspiBackupDoc)
    IN  /\ line_number' = n
        /\ out' = out \o r.prints
        /\ external_links' = external_links \o r.links
        /\ checked' = Append(checked, r)
        /\ pc' = IF r.raised THEN "aborted" ELSE next_pc

-----------------------------------------------------------------------------
(* print_external_links *)

\* the order of the tuples (filename, line_number, target)
TupleLess(a, b) ==
    \/ StrLess(a[1], b[1])
    \/ a[1] = b[1] /\ a[2] < b[2]
    \/ a[1] = b[1] /\ a[2] = b[2] /\ StrLess(a[3], b[3])

RECURSIVE Insert(_, _)
Insert(x, s) ==
    IF s = <<>> THEN <<x>>
    ELSE IF TupleLess(x, Head(s)) THEN <<x>> \o s
    ELSE <<Head(s)>> \o Insert(x, Tail(s))

\* the links as they were collected, for sorted(links)
unsorted(links) == links

RECURSIVE sorted(_)
sorted(links) == IF links = <<>> THEN <<>> ELSE Insert(Head(links), sorted(Tail(links)))

print_external_links(links) ==
    LET ordered == sorted(links)
    IN  <<SummaryBanner>> \o
        [i \in 1..Len(links) |->
            Printed("external", ordered[i][1], ordered[i][2], ordered[i][3], NoText, 0)]

-----------------------------------------------------------------------------
(* The inputs: a tree of documents and a command line *)

DE == <<"d","e">>
EN == <<"e","n">>
SRC == <<"s","r","c">>
SUB == <<"s","u","b">>
D_MD == <<"d",".","m","d">>
E_MD == <<"e",".","m","d">>
G_MD == <<"g",".","m","d">>
PIC_PNG == <<"p","i","c",".","p","n","g">>

DocD == <<DE, SRC, D_MD>>        \* de/src/d.md
DocE == <<EN, SRC, SUB, E_MD>>   \* en/src/sub/e.md
DocG == <<DE, SRC, G_MD>>        \* de/src/g.md
DocH == <<EN, SRC, G_MD>>        \* en/src/g.md
Pic  == <<PIC_PNG>>              \* pic.png

Heading == <<"#","#"," ","S","e","c","t","i","o","n"," ","O","n","e">>
TagQuoted == <<"<","a"," ","n","a","m","e","=","\"","s","\"",">">>
TagUnquoted == <<"<","a"," ","n","a","m","e","=","s",">">>
TagLonger == <<"<","a"," ","n","a","m","e","=","s","s",">">>
Plain == <<"p","l","a","i","n"," ","t","e","x","t">>

\* what follows the link in a document, and what the linked document holds
AnchorDocs == { <<Heading>>, <<TagQuoted>>, <<Plain, TagUnquoted>>, <<TagLonger>> }

\* the documents whose links are checked in a run of the whole program
LinkDocs ==
    { <<Plain>>,
      \* [a](m.md#s) and [b](http://e)
      << <<"[","a","]","(","m",".","m","d","#","s",")">>,
         <<"[","b","]","(","h","t","t","p",":","/","/","e",")">> >>,
      \* [c](#a(b) and [d](m.md)
      << <<"[","c","]","(","#","a","(","b",")">>,
         <<"[","d","]","(","m",".","m","d",")">> >>,
      \* ## Section One, [x](#section-one) and [v](de/g.md)
      << Heading,
         <<"[","x","]","(","#","s","e","c","t","i","o","n","-","o","n","e",")">>,
         <<"[","v","]","(","d","e","/","g",".","m","d",")">> >>,
      \* [u](../g.md#s) and [e](https://e)
      << <<"[","u","]","(",".",".","/","g",".","m","d","#","s",")">>,
         <<"[","e","]","(","h","t","t","p","s",":","/","/","e",")">> >> }

Tree(d, e, g) == (DocD :> d) @@ (DocE :> e) @@ (DocH :> g) @@ (Pic :> <<>>)

Trees == {Tree(d, e, <<Plain, TagLonger>>) : d \in LinkDocs, e \in LinkDocs}

\* positional arguments: "." and "zz", which does not exist
RootChoices == { <<".">>, <<"z","z">> }

RootLists == UNION {[1..k -> RootChoices] : k \in 1..MaxRoots}

-----------------------------------------------------------------------------
(* main and walk_dir *)

Init ==
    /\ args \in [pathes : RootLists, raspiBackupDoc : BOOLEAN,
                 show_external_links : BOOLEAN, verbose : BOOLEAN]
    /\ fs \in Trees
    /\ pc = "start"
    /\ srcdir = 1
    /\ stack = <<>>
    /\ root = <<>>
    /\ files = <<>>
    /\ file = <<>>
    /\ lines = <<>>
    /\ line_number = 0
    /\ external_links = <<>>
    /\ out = <<>>
    /\ checked = <<>>

\* print("*** Check project-internal links ***\n"); external_links = []
Main_Start ==
    /\ pc = "start"
    /\ out' = Append(out, Banner)
    /\ external_links' = <<>>
    /\ pc' = "roots"
    /\ UNCHANGED <<args, fs, srcdir, stack, root, files, file, lines, line_number, checked>>

\* for srcdir in args.pathes: walk_dir(srcdir, ...) starts Path(directory).walk
Main_WalkRoot ==
    /\ pc = "roots"
    /\ srcdir <= Len(args.pathes)
    /\ stack' = <<Path(args.pathes[srcdir])>>
    /\ srcdir' = srcdir + 1
    /\ pc' = "walk"
    /\ UNCHANGED <<args, fs, root, files, file, lines, line_number, external_links, out, checked>>

\* after the loop: the summary, if asked for and not empty, and print("")
Main_Finish ==
    /\ pc = "roots"
    /\ srcdir > Len(args.pathes)
    /\ out' = out \o (IF external_links # <<>> /\ args.show_external_links
                      THEN print_external_links(external_links) ELSE <<>>)
                  \o <<Blank>>
    /\ pc' = "done"
    /\ UNCHANGED <<args, fs, srcdir, stack, root, files, file, lines, line_number,
                   external_links, checked>>

\* Path.walk yields the next directory, its entries in the order of the file system
Walk_Dir ==
    /\ pc = "walk"
    /\ stack # <<>>
    /\ is_dir(stack[Len(stack)])
    /\ LET path == stack[Len(stack)]
           here == Resolve(path)
       IN  /\ root' = path
           /\ \E filenames \in Perms(FileNames(here)) : files' = filenames
           /\ \E dirnames \in Perms(DirNames(here)) :
                 stack' = SubSeq(stack, 1, Len(stack) - 1)
                          \o Reverse([i \in 1..Len(dirnames) |-> Append(path, dirnames[i])])
           /\ out' = IF args.verbose
                     THEN Append(out, Printed(">>> Checking directory", NoText, 0,
                                              NoText, as_posix(path), 0))
                     ELSE out
    /\ pc' = "files"
    /\ UNCHANGED <<args, fs, srcdir, file, lines, line_number, external_links, checked>>

\* Path.walk cannot list the directory: on_error=print, and the walk goes on
Walk_Error ==
    /\ pc = "walk"
    /\ stack # <<>>
    /\ ~is_dir(stack[Len(stack)])
    /\ out' = Append(out, Printed("OSError", NoText, 0, NoText,
                                  as_posix(stack[Len(stack)]), 0))
    /\ stack' = SubSeq(stack, 1, Len(stack) - 1)
    /\ UNCHANGED <<args, fs, pc, srcdir, root, files, file, lines, line_number,
                   external_links, checked>>

\* Path.walk is exhausted: walk_dir returns
Walk_Return ==
    /\ pc = "walk"
    /\ stack = <<>>
    /\ pc' = "roots"
    /\ UNCHANGED <<args, fs, srcdir, stack, root, files, file, lines, line_number,
                   external_links, out, checked>>

MarkdownSuffixes ==
    { <<".","m","d">>, <<".","m","k","d">>, <<".","m","a","r","k","d","o","w","n">> }

\* for f in files: a file of another suffix is passed over
Walk_Skip ==
    /\ pc = "files"
    /\ files # <<>>
    /\ suffix(Append(root, Head(files))) \notin MarkdownSuffixes
    /\ files' = Tail(files)
    /\ UNCHANGED <<args, fs, pc, srcdir, stack, root, file, lines, line_number,
                   external_links, out, checked>>

\* for f in files: check_markdown_file(root, file, ...) opens the file and reads its lines
Walk_File ==
    /\ pc = "files"
    /\ files # <<>>
    /\ suffix(Append(root, Head(files))) \in MarkdownSuffixes
    /\ file' = Append(root, Head(files))
    /\ files' = Tail(files)
    /\ lines' = readlines(Append(root, Head(files)))
    /\ line_number' = 0
    /\ out' = IF args.verbose
              THEN Append(out, Printed(">>> Checking file", NoText, 0, NoText,
                                       as_posix(Append(root, Head(files))), 0))
              ELSE out
    /\ pc' = "lines"
    /\ UNCHANGED <<args, fs, srcdir, stack, root, external_links, checked>>

\* the files of the directory are done: back to Path.walk
Walk_NextDir ==
    /\ pc = "files"
    /\ files = <<>>
    /\ pc' = "walk"
    /\ UNCHANGED <<args, fs, srcdir, stack, root, files, file, lines, line_number,
                   external_links, out, checked>>

\* one pass of the loop of check_markdown_file
Check_Line ==
    /\ pc = "lines"
    /\ line_number < Len(lines)
    /\ check_markdown_file("lines")
    /\ UNCHANGED <<args, fs, srcdir, stack, root, files, file, lines>>

\* the loop of check_markdown_file is over
Check_Return ==
    /\ pc = "lines"
    /\ line_number = Len(lines)
    /\ pc' = "files"
    /\ UNCHANGED <<args, fs, srcdir, stack, root, files, file, lines, line_number,
                   external_links, out, checked>>

Next ==
    \/ Main_Start
    \/ Main_WalkRoot
    \/ Main_Finish
    \/ Walk_Dir
    \/ Walk_Error
    \/ Walk_Return
    \/ Walk_Skip
    \/ Walk_File
    \/ Walk_NextDir
    \/ Check_Line
    \/ Check_Return

Spec == Init /\ [][Next]_vars

-----------------------------------------------------------------------------
(* check_markdown_file on one document, for every line made of a few       *)
(* segments.  The run is the one of "mdlinkcheck.py de/src" at the moment  *)
(* check_markdown_file has read de/src/d.md.                               *)

TargetSegs ==
    { <<"#">>, <<"g",".","m","d">>, <<"s">>, <<"h","t","t","p",":","/","/","e">>,
      <<".",".","/">>, <<"d","e","/">>, <<"(">> }

Targets == {Concat(ss) : ss \in UNION {[1..k -> TargetSegs] : k \in 0..MaxTargetSegs}}

Link(target) == <<"[","x","]","(">> \o target \o <<")">>

GenLines ==
    {Link(t) : t \in Targets}
    \cup {<<" ">> \o Link(t) \o <<" ">> \o Link(u) : t \in TargetSegs, u \in TargetSegs}
    \cup { Plain,
           <<"[","x","]"," ","(","s",")">>,      \* [x] (s)
           <<"[","x","]","(","s">>,              \* [x](s
           <<"(","s",")">>,                      \* (s)
           <<"x","]","(","s",")","[","x","]">> } \* x](s)[x]

LineTree(d, g) == (DocD :> d) @@ (DocG :> g) @@ (DocH :> g)

InitLine ==
    /\ args \in [pathes : {<< <<"d","e","/","s","r","c">> >>}, raspiBackupDoc : BOOLEAN,
                 show_external_links : {FALSE}, verbose : {FALSE}]
    /\ \E l \in GenLines : \E g \in AnchorDocs : fs = LineTree(<<l>> \o g, g)
    /\ pc = "lines"
    /\ srcdir = 2
    /\ stack = <<>>
    /\ root = <<DE, SRC>>
    /\ files = <<>>
    /\ file = DocD
    /\ lines = readlines(DocD)
    /\ line_number = 0
    /\ external_links = <<>>
    /\ out = <<Banner>>
    /\ checked = <<>>

NextLine ==
    \/ Check_Line
    \/ Check_Return

SpecLine == InitLine /\ [][NextLine]_vars

-----------------------------------------------------------------------------
(* Properties of check_markdown_file, checked under SpecLine *)

Rows == {checked[i] : i \in DOMAIN checked}

\* the lines printed with the prefix "<file>:<line>:"
PrintedFor(f, n) == {i \in DOMAIN out : out[i].file = as_posix(f) /\ out[i].line = n}

\* the records collected for a line
CollectedFor(f, n) ==
    {i \in DOMAIN external_links :
        external_links[i][1] = as_posix(f) /\ external_links[i][2] = n}

NotFoundMessage(r) ==
    Printed("Target file not found", as_posix(r.file), r.line_number,
            NoText, as_posix(r.target_path), 0)

\* C1: a line whose first link is not external and whose resolved target path
\* does not exist gets exactly one diagnostic, which says "Target file not
\* found" and gives the resolved path, and the anchor check is not called
\* for it, with or without a fragment.
C1_MissingTarget ==
    \A r \in Rows :
        (r.matched /\ ~r.external /\ ~exists(r.target_path)) =>
            /\ ~r.anchor_checked
            /\ ~r.raised
            /\ r.links = <<>>
            /\ r.prints = <<NotFoundMessage(r)>>
            /\ Cardinality(PrintedFor(r.file, r.line_number)) = 1
            /\ \A i \in PrintedFor(r.file, r.line_number) : out[i] = NotFoundMessage(r)

C1_Witness ==
    \E r \in Rows :
        /\ r.matched /\ ~r.external /\ ~exists(r.target_path)
        /\ r.anchor # <<>>
        /\ Cardinality(PrintedFor(r.file, r.line_number)) = 1

\* the first "[", the first "](" after it and the first ")" after that
FirstOpen(s) == Min({i \in 1..Len(s) : s[i] = "["})
FirstClose(s) ==
    Min({j \in (FirstOpen(s) + 1)..(Len(s) - 1) : s[j] = "]" /\ s[j + 1] = "("})
FirstEnd(s) == Min({k \in (FirstClose(s) + 2)..Len(s) : s[k] = ")"})

HasLink(s) ==
    /\ \E i \in 1..Len(s) : s[i] = "["
    /\ \E j \in (FirstOpen(s) + 1)..(Len(s) - 1) : s[j] = "]" /\ s[j + 1] = "("
    /\ \E k \in (FirstClose(s) + 2)..Len(s) : s[k] = ")"

FirstTarget(s) == SubSeq(s, FirstClose(s) + 2, FirstEnd(s) - 1)

\* C10: a line yields at most one item, a diagnostic or an external-link
\* record, and the item is the one of the first "[label](target)" of the
\* line alone; a line without a link yields nothing.
C10_FirstLinkOnly ==
    \A r \in Rows :
        /\ r.matched = HasLink(r.line)
        /\ Len(r.prints) + Len(r.links) <= 1
        /\ Cardinality(PrintedFor(r.file, r.line_number))
             + Cardinality(CollectedFor(r.file, r.line_number)) = Len(r.prints) + Len(r.links)
        /\ ~HasLink(r.line) => r.prints = <<>> /\ r.links = <<>>
        /\ HasLink(r.line) =>
              LET alone == check_line(r.root, r.file, r.line_number,
                                      <<"[","]","(">> \o FirstTarget(r.line) \o <<")">>,
                                      args.raspiBackupDoc)
              IN  /\ r.raw = FirstTarget(r.line)
                  /\ r.prints = alone.prints
                  /\ r.links = alone.links

\* a line of two links: the first is in order, the second alone is reported
C10_Witness ==
    \E r \in Rows : \E t \in TargetSegs : \E u \in TargetSegs :
        /\ r.line = <<"[","x","]","(">> \o t \o <<")"," ","[","x","]","(">> \o u \o <<")">>
        /\ r.prints = <<>> /\ r.links = <<>>
        /\ check_line(r.root, r.file, r.line_number, <<"[","x","]","(">> \o u \o <<")">>,
                      args.raspiBackupDoc).prints # <<>>

\* C4: the target of a link that is not external is split at its first "#":
\* the path-part is what precedes it, the fragment all that follows it; a
\* target without "#" is the path-part and has the empty fragment.
C4_SplitFirstHash ==
    \A r \in Rows :
        (r.matched /\ ~r.external) =>
            LET hashes == {i \in 1..Len(r.raw) : r.raw[i] = "#"}
            IN  IF hashes = {}
                THEN r.path_part = r.raw /\ r.anchor = <<>>
                ELSE /\ r.path_part = SubSeq(r.raw, 1, Min(hashes) - 1)
                     /\ r.anchor = SubSeq(r.raw, Min(hashes) + 1, Len(r.raw))

\* an anchor tag of exactly this name, and a heading that starts with this text
ExactUnquotedTag(content, f) ==
    \E i \in 1..Len(content) : LiteralAt(content, i, TagOpen \o f \o <<">">>)

ExactQuotedTag(content, f) ==
    \E i \in 1..Len(content) :
        LiteralAt(content, i, TagOpen \o <<QUOTE>> \o f \o <<QUOTE, ">">>)

HeadingLine(content, f) ==
    \E i \in 1..Len(content) : \E k \in 1..Len(content) :
        /\ i = 1 \/ content[i - 1] = NL
        /\ i + k + Len(f) <= Len(content)
        /\ \A x \in i..(i + k - 1) : content[x] = "#"
        /\ content[i + k] = " "
        /\ \A x \in 1..Len(f) : Lower(content[i + k + x]) = Lower(f[x])

\* the links with a fragment whose target is a file of the tree
FragmentRows ==
    {r \in Rows : r.matched /\ ~r.external /\ r.anchor # <<>>
                  /\ Resolve(r.target_path) \in Files}

\* C2: for a link with a fragment to a file that exists, the outcome is, in
\* this order: one "not quoted" warning if the target has an unquoted anchor
\* tag of the fragment; nothing if it has a quoted tag or a heading of it;
\* otherwise one "Anchor not found".
C2_AnchorPrecedence ==
    \A r \in FragmentRows :
        LET content == read_text(r.target_path)
        IN  IF ExactUnquotedTag(content, r.anchor)
            THEN Len(r.prints) = 1 /\ r.prints[1].kind = "is not quoted"
            ELSE IF ExactQuotedTag(content, r.anchor) \/ HeadingLine(content, r.anchor)
            THEN r.prints = <<>>
            ELSE Len(r.prints) = 1 /\ r.prints[1].kind = "Anchor not found"

\* C9: only an anchor tag whose name is the fragment itself counts: the
\* warning "not quoted" needs an unquoted tag of exactly that name, and a
\* fragment found without a heading needs a quoted tag of exactly that name.
C9_ExactAnchorName ==
    \A r \in FragmentRows :
        LET content == read_text(r.target_path)
        IN  /\ (r.prints # <<>> /\ r.prints[1].kind = "is not quoted")
                  => ExactUnquotedTag(content, r.anchor)
            /\ (~r.raised /\ r.prints = <<>> /\ ~HeadingLine(content, r.anchor))
                  => ExactQuotedTag(content, r.anchor)

-----------------------------------------------------------------------------
(* Properties of a whole run, checked under Spec *)

Terminal == pc \in {"done", "aborted"}

\* C3: a link [x](#section-one) in a document that has the heading line
\* "## Section One" gets no diagnostic.
C3_HeadingSectionOne ==
    \A r \in Rows :
        ( /\ r.raw = <<"#","s","e","c","t","i","o","n","-","o","n","e">>
          /\ \E i \in DOMAIN fs[Resolve(r.file)] : fs[Resolve(r.file)][i] = Heading )
        => (r.prints = <<>> /\ ~r.raised)

\* the Markdown files below a root
DocsBelow(p) ==
    {f \in Files : /\ Len(f) > Len(Resolve(p))
                   /\ SubSeq(f, 1, Len(Resolve(p))) = Resolve(p)
                   /\ suffix(f) \in MarkdownSuffixes}

\* C5: no line and no document stops the scan: when the run is over, every
\* line of every Markdown file below every root has been checked.
C5_KeepGoing ==
    Terminal =>
        \A i \in DOMAIN args.pathes :
            is_dir(Path(args.pathes[i])) =>
                \A f \in DocsBelow(Path(args.pathes[i])) : \A n \in 1..Len(fs[f]) :
                    \E r \in Rows : Resolve(r.file) = f /\ r.line_number = n

ExternalRecord(r) == Printed("external", as_posix(r.file), r.line_number, r.raw, NoText, 0)

\* C6: a line whose first link starts with http:// or https:// is not
\* checked and gets no diagnostic; nothing is printed for it while the roots
\* are walked, nor ever when the display is off; when the display is on, the
\* finished run has printed its record exactly once, below the summary banner.
C6_ExternalOnlyInSummary ==
    \A r \in Rows :
        ( /\ r.matched
          /\ \/ startswith(r.raw, <<"h","t","t","p",":","/","/">>)
             \/ startswith(r.raw, <<"h","t","t","p","s",":","/","/">>) )
        => LET mine == PrintedFor(r.file, r.line_number)
           IN  /\ ~r.anchor_checked
               /\ r.prints = <<>>
               /\ \A i \in mine : out[i] = ExternalRecord(r)
               /\ ~args.show_external_links => mine = {}
               /\ ~Terminal => mine = {}
               /\ (args.show_external_links /\ Terminal) =>
                     /\ Cardinality(mine) = 1
                     /\ \A i \in mine : \E b \in 1..(i - 1) : out[b] = SummaryBanner

\* names in the order of their code points
Ascending(S) ==
    CHOOSE s \in Perms(S) : \A i, j \in DOMAIN s : i < j => StrLess(s[i], s[j])

\* the documents walk_dir checks below d when every directory lists its
\* entries in ascending order, each with the directory it is in
RECURSIVE AscendingWalk(_)
AscendingWalk(d) ==
    LET names == Ascending(FileNames(Resolve(d)))
        subs == Ascending(DirNames(Resolve(d)))
        docs == SelectSeq([i \in DOMAIN names |-> <<d, Append(d, names[i])>>],
                          LAMBDA e : suffix(e[2]) \in MarkdownSuffixes)
    IN  docs \o Concat([i \in DOMAIN subs |-> AscendingWalk(Append(d, subs[i]))])

\* the lines of these documents, root after root
AscendingLines ==
    LET docs == Concat([i \in DOMAIN args.pathes |->
                          IF is_dir(Path(args.pathes[i]))
                          THEN AscendingWalk(Path(args.pathes[i])) ELSE <<>>])
        LinesOf(doc) ==
            LET text == readlines(doc[2])
            IN  [n \in DOMAIN text |->
                    [root |-> doc[1], file |-> doc[2], n |-> n, line |-> text[n]]]
    IN  Concat([i \in DOMAIN docs |-> LinesOf(docs[i])])

\* the lines checked by that run, up to the first one that raises
RECURSIVE RowsOf(_)
RowsOf(todo) ==
    IF todo = <<>> THEN <<>>
    ELSE LET r == check_line(todo[1].root, todo[1].file, todo[1].n, todo[1].line,
                             args.raspiBackupDoc)
         IN  IF r.raised THEN <<r>> ELSE <<r>> \o RowsOf(Tail(todo))

AscendingRows == RowsOf(AscendingLines)

Diagnostics(o) == SelectSeq(o, LAMBDA e : e.kind \in DiagnosticKinds)
Summary(o) == SelectSeq(o, LAMBDA e : e.kind = "external")

AscendingDiagnostics ==
    LET rows == AscendingRows IN Concat([i \in DOMAIN rows |-> rows[i].prints])

AscendingSummary ==
    LET rows == AscendingRows
        links == Concat([i \in DOMAIN rows |-> rows[i].links])
    IN  IF /\ \A i \in DOMAIN rows : ~rows[i].raised
           /\ args.show_external_links
           /\ links # <<>>
        THEN Tail(print_external_links(links))
        ELSE <<>>

\* C7: in whatever order the file system lists the entries, a run that
\* finishes has printed the diagnostics and the summary that it prints when
\* they come in ascending order.
C7_SameOutputAnyOrder ==
    pc = "done" =>
        /\ Diagnostics(out) = AscendingDiagnostics
        /\ Summary(out) = AscendingSummary

\* C7, amended: the summary is the same in every order of enumeration, the
\* records in the order of (path, line, URL); the diagnostics come in the
\* order in which the walk takes the lines of the documents.
C7_SortedSummary ==
    /\ Diagnostics(out) = Concat([i \in DOMAIN checked |-> checked[i].prints])
    /\ Terminal => Summary(out) = AscendingSummary
    /\ LET s == Summary(out)
       IN  \A i, j \in DOMAIN s :
               i < j => ~TupleLess(<<s[j].file, s[j].line, s[j].text>>,
                                   <<s[i].file, s[i].line, s[i].text>>)

\* a finished run that collected the links out of order and printed its
\* diagnostics in another order than the ascending one
C7_Witness ==
    /\ pc = "done"
    /\ Len(Summary(out)) >= 2
    /\ [i \in DOMAIN external_links |->
          Printed("external", external_links[i][1], external_links[i][2],
                  external_links[i][3], NoText, 0)] # Summary(out)
    /\ Diagnostics(out) # AscendingDiagnostics

\* a path without the ".." that follow a name
RECURSIVE Collapse(_, _)
Collapse(done, p) ==
    IF p = <<>> THEN done
    ELSE IF Head(p) = <<".",".">> /\ done # <<>> /\ done[Len(done)] # <<".",".">>
    THEN Collapse(SubSeq(done, 1, Len(done) - 1), Tail(p))
    ELSE Collapse(Append(done, Head(p)), Tail(p))

Remapped(r) ==
    /\ args.raspiBackupDoc
    /\ r.matched /\ ~r.external
    /\ startswith(r.path_part, <<".",".","/">>) \/ startswith(r.path_part, <<"d","e","/">>)

\* C8: with the remapping on, a path-part that starts with "../" or "de/"
\* names the same file whichever document refers to it.
C8_SamePathAnyDocument ==
    \A r1 \in Rows : \A r2 \in Rows :
        (Remapped(r1) /\ Remapped(r2) /\ r1.path_part = r2.path_part)
        => Collapse(<<>>, r1.target_path) = Collapse(<<>>, r2.target_path)

\* C8, amended: the rewritten path-part depends on the path-part and the
\* flag alone, "../rest" giving "../../en/src/rest" and "de/rest" giving
\* "../../de/src/rest"; the path checked is the directory of the referring
\* document joined with it.
C8_RemapOfTargetOnly ==
    \A r \in Rows :
        (r.matched /\ ~r.external /\ r.path_part # <<>>) =>
            LET rest == SubSeq(r.path_part, 4, Len(r.path_part))
            IN  /\ r.target =
                     IF args.raspiBackupDoc /\ startswith(r.path_part, <<".",".","/">>)
                     THEN <<".",".","/",".",".","/","e","n","/","s","r","c","/">> \o rest
                     ELSE IF args.raspiBackupDoc /\ startswith(r.path_part, <<"d","e","/">>)
                     THEN <<".",".","/",".",".","/","d","e","/","s","r","c","/">> \o rest
                     ELSE r.path_part
                /\ r.target_path = r.root \o Path(r.target)
                /\ r.root = SubSeq(r.file, 1, Len(r.file) - 1)

\* two documents refer to the same "../..." and two different files are checked
C8_Witness ==
    \E r1 \in Rows : \E r2 \in Rows :
        /\ Remapped(r1) /\ Remapped(r2)
        /\ r1.path_part = r2.path_part
        /\ r1.file # r2.file
        /\ Collapse(<<>>, r1.target_path) # Collapse(<<>>, r2.target_path)

====
